---- MODULE Spec2Model ----
(***************************************************************************)
(* jhr_skip_list: a skip list with per-link widths (jhr::Skip_List<T>).    *)
(*                                                                         *)
(* The heap is a function from node addresses to Skip_Node records; a node *)
(* record carries ptr_ (the element it holds, by value), its level_ and    *)
(* its forward_ array, indexed 0..level_-1 as in the source.  size_t       *)
(* arithmetic is done modulo SizeMod.  Dereferencing nullptr is undefined  *)
(* behaviour: the model takes every outcome of NullDerefOutcomes.          *)
(***************************************************************************)
EXTENDS Integers, Sequences, FiniteSets, TLC

\* ------------------------------------------------------------------ bounds
MaxKey == 3          \* elements are the integers 1..MaxKey
MaxLevelCfg == 3     \* the list is constructed with max_level in 1..MaxLevelCfg
MaxInserts == 3      \* insert is called only while width_ < MaxInserts
MaxInsertsWide == 4  \* the insert cap of the wide specification
MaxInsertsPair == 2  \* the insert cap of the specification of two lists
MaxN == 4            \* MaxLevel is called with N in 0..MaxN
MaxExp == 1          \* and with p of magnitude 2^-MaxExp .. 2^MaxExp

Keys == 1 .. MaxKey
Streaks == 0 .. MaxLevelCfg
Ranks == 0 .. MaxInserts

\* ------------------------------------------------------- program constants
SizeBits == 16                \* width of size_t in the model
SizeMod == 2 ^ SizeBits
nullptr == 0
NoElem == 0                   \* the head's ptr_ (nullptr: it holds no element)
HeadAddr == 1                 \* address of the sentinel allocated by the constructor

VARIABLES kMaxLevel_, level_, width_, head_, heap, fault, hist, twin
vars == <<kMaxLevel_, level_, width_, head_, heap, fault, hist, twin>>

\* ------------------------------------------------------------- data model
Skip_Link == [width |-> 1, node |-> nullptr]

Skip_Node(ptr, level) ==
  [ptr_ |-> ptr, level_ |-> level, forward_ |-> [i \in 0 .. (level - 1) |-> Skip_Link]]

\* operator new: an address that is not in use
CreateNode(h) == CHOOSE a \in 2 .. (Cardinality(DOMAIN h) + 2) :
                   a \notin DOMAIN h /\ \A b \in 2 .. (a - 1) : b \in DOMAIN h

\* outcomes of reading through a null pointer
NullDerefOutcomes == {"segv", "reads_unequal"}

\* -------------------------------------------------------------- MaxLevel
\* a float p is [sign, exp], standing for sign * 2^exp (0.0F when sign = 0)
Floats ==
  {[sign |-> 0, exp |-> 0]}
    \cup {[sign |-> sg, exp |-> e] : sg \in {-1, 1}, e \in (0 - MaxExp) .. MaxExp}

\* what the conversion of a NaN, an infinity or a negative value to size_t can
\* yield (undefined behaviour): 0, the sign bit alone, or the wrapped integer
UndefinedCastOutcomes == {"zero", "sign_bit", "wrapped"}

\* floor of the base-2 logarithm of N >= 1
RECURSIVE Log2Floor(_)
Log2Floor(N) == IF N <= 1 THEN 0 ELSE 1 + Log2Floor(N \div 2)

\* "0.0F <= p <= 1.0F": the first comparison yields a bool, which is then
\* compared with 1.0F
InRange(p) == (IF 0 <= p.sign THEN 1 ELSE 0) <= 1

\* log(1 / p) in units of log 2: NaN for p < 0, +inf for p = 0, else -exp
LogInverse(p) ==
  IF p.sign < 0 THEN [kind |-> "nan", val |-> 0]
  ELSE IF p.sign = 0 THEN [kind |-> "posinf", val |-> 0]
  ELSE [kind |-> "finite", val |-> 0 - p.exp]

\* log(N) / log(1 / p), truncated toward zero when it is finite
Quotient(N, p) ==
  LET d == LogInverse(p) IN
  IF d.kind = "nan" THEN [kind |-> "nan", val |-> 0]
  ELSE IF d.kind = "posinf"
    THEN IF N = 0 THEN [kind |-> "nan", val |-> 0] ELSE [kind |-> "finite", val |-> 0]
  ELSE IF d.val = 0
    THEN IF N = 0 THEN [kind |-> "neginf", val |-> 0]
         ELSE IF N = 1 THEN [kind |-> "nan", val |-> 0]
         ELSE [kind |-> "posinf", val |-> 0]
  ELSE IF N = 0
    THEN IF d.val > 0 THEN [kind |-> "neginf", val |-> 0] ELSE [kind |-> "posinf", val |-> 0]
  ELSE IF d.val > 0
    THEN [kind |-> "finite", val |-> Log2Floor(N) \div d.val]
    ELSE [kind |-> "finite", val |-> 0 - (Log2Floor(N) \div (0 - d.val))]

\* static_cast<size_t> of the quotient
Cast(q, cast) ==
  IF q.kind = "finite" /\ q.val >= 0 THEN q.val % SizeMod
  ELSE IF cast = "zero" THEN 0
  ELSE IF cast = "sign_bit" \/ q.kind # "finite" THEN SizeMod \div 2
  ELSE q.val % SizeMod

MaxLevel(N, p, cast) == IF ~InRange(p) THEN 0 ELSE Cast(Quotient(N, p), cast)

\* ----------------------------------------------------------- RandomLevel
\* streak is the number of consecutive draws rnd < p_ the generator yields
\* variant: the cap is taken one past kMaxLevel_ instead of one below it
RECURSIVE RandomLevelLoopPastCap(_, _, _)
RandomLevelLoopPastCap(level, streak, kMax) ==
  IF streak > 0 /\ level < (kMax + 1) % SizeMod
    THEN RandomLevelLoopPastCap(level + 1, streak - 1, kMax)
    ELSE level

\* variant: the cap is kMaxLevel_ itself instead of one below it
RECURSIVE RandomLevelLoopAtCap(_, _, _)
RandomLevelLoopAtCap(level, streak, kMax) ==
  IF streak > 0 /\ level < kMax
    THEN RandomLevelLoopAtCap(level + 1, streak - 1, kMax)
    ELSE level

RECURSIVE RandomLevelLoop(_, _, _)
RandomLevelLoop(level, streak, kMax) ==
  IF streak > 0 /\ level < (kMax - 1) % SizeMod
    THEN RandomLevelLoop(level + 1, streak - 1, kMax)
    ELSE level

RandomLevel(streak, kMax) == RandomLevelLoop(1, streak, kMax)

\* ------------------------------------------------ key-mode inner while loop
\* variant: the walk also passes a node holding an equal element
RECURSIVE WhileLessOrEqual(_, _, _, _, _)
WhileLessOrEqual(h, x, i, key, width_sum) ==
  LET l == h[x].forward_[i - 1] IN
  IF l.node # nullptr /\ h[l.node].ptr_ <= key
    THEN WhileLessOrEqual(h, l.node, i, key, (width_sum + l.width) % SizeMod)
    ELSE [x |-> x, width_sum |-> width_sum]

RECURSIVE WhileLess(_, _, _, _, _)
WhileLess(h, x, i, key, width_sum) ==
  LET l == h[x].forward_[i - 1] IN
  IF l.node # nullptr /\ h[l.node].ptr_ < key
    THEN WhileLess(h, l.node, i, key, (width_sum + l.width) % SizeMod)
    ELSE [x |-> x, width_sum |-> width_sum]

\* ------------------------------------------------------------------- find
RECURSIVE FindFor(_, _, _, _)
FindFor(h, x, i, key) ==
  IF i > 0 THEN FindFor(h, WhileLess(h, x, i, key, 0).x, i - 1, key) ELSE x

\* variant: the step x = x->forward_[0].node past the predecessor is left out
findNoStep(h, hd, lvl, key, outcome) ==
  LET x == FindFor(h, hd, lvl, key) IN
  IF h[x].ptr_ = key THEN [ret |-> x, fault |-> "none"]
                     ELSE [ret |-> nullptr, fault |-> "none"]

\* the result and the fault of find(key); outcome resolves a null dereference
find(h, hd, lvl, key, outcome) ==
  LET x == h[FindFor(h, hd, lvl, key)].forward_[0].node IN
  IF x = nullptr
    THEN IF outcome = "segv" THEN [ret |-> nullptr, fault |-> "null_deref"]
                             ELSE [ret |-> nullptr, fault |-> "none"]
    ELSE IF h[x].ptr_ = key THEN [ret |-> x, fault |-> "none"]
                            ELSE [ret |-> nullptr, fault |-> "none"]

\* --------------------------------------------------------------------- at
RECURSIVE AtWhile(_, _, _, _)
AtWhile(h, x, i, w) ==
  LET l == h[x].forward_[i - 1] IN
  IF l.node # nullptr /\ l.width <= w
    THEN LET w1 == (w - l.width) % SizeMod IN
         IF w1 = 0 THEN [x |-> l.node, w |-> w1, done |-> TRUE]
                   ELSE AtWhile(h, l.node, i, w1)
    ELSE [x |-> x, w |-> w, done |-> FALSE]

\* variant: a walk that runs out of levels answers with the node it stands on
RECURSIVE AtForReturnsReached(_, _, _, _)
AtForReturnsReached(h, x, i, w) ==
  IF i > 0
    THEN LET r == AtWhile(h, x, i, w) IN
         IF r.done THEN r.x ELSE AtForReturnsReached(h, r.x, i - 1, r.w)
    ELSE x

RECURSIVE AtFor(_, _, _, _)
AtFor(h, x, i, w) ==
  IF i > 0
    THEN LET r == AtWhile(h, x, i, w) IN
         IF r.done THEN r.x ELSE AtFor(h, r.x, i - 1, r.w)
    ELSE nullptr

at(h, hd, lvl, wid, index) ==
  IF index >= wid THEN nullptr ELSE AtFor(h, hd, lvl, (index + 1) % SizeMod)

length(wid) == wid

empty(h, hd) == h[hd].forward_[0].node = nullptr

\* ----------------------------------------------------------------- insert
RECURSIVE InsertFor(_, _, _, _, _, _)
InsertFor(h, x, i, key, update, update_width) ==
  IF i > 0
    THEN LET r == WhileLess(h, x, i, key, 0) IN
         InsertFor(h, r.x, i - 1, key,
                   [update EXCEPT ![i - 1] = r.x],
                   [update_width EXCEPT ![i - 1] = r.width_sum])
    ELSE [x |-> x, update |-> update, update_width |-> update_width]

\* "complete the update list with the head of the list": the update trail
RaiseUpdate(update, hd, lvl, level) ==
  [i \in DOMAIN update |-> IF lvl <= i /\ i < level THEN hd ELSE update[i]]

\* ... and the head's widths on the new levels
RaiseHead(h, hd, lvl, level) ==
  [h EXCEPT ![hd].forward_ =
     [i \in DOMAIN @ |-> IF lvl <= i /\ i < level THEN [@[i] EXCEPT !.width = 0] ELSE @[i]]]

\* variant: the loop stops after level 0, so the new node is never linked
\* into the lanes above it
RECURSIVE SpliceLevelZeroOnly(_, _, _, _, _, _)
SpliceLevelZeroOnly(h, new_node, update, update_width, i, level) ==
  IF i < 1
    THEN LET u  == update[i]
             h1 == [h EXCEPT ![new_node].forward_[i].node = h[u].forward_[i].node]
             h2 == [h1 EXCEPT ![u].forward_[i].node = new_node]
         IN  SpliceLevelZeroOnly(h2, new_node, update, update_width, i + 1, level)
    ELSE h

\* variant: the loop starts at level index 1, so level 0 is never spliced
RECURSIVE SpliceFromLevelOne(_, _, _, _, _, _)
SpliceFromLevelOne(h, new_node, update, update_width, i, level) ==
  IF i = 0
    THEN SpliceFromLevelOne(h, new_node, update, update_width, 1, level)
    ELSE IF i < level
      THEN LET u  == update[i]
               h1 == [h EXCEPT ![new_node].forward_[i].node = h[u].forward_[i].node]
               h2 == [h1 EXCEPT ![u].forward_[i].node = new_node]
           IN  SpliceFromLevelOne(h2, new_node, update, update_width, i + 1, level)
      ELSE h

\* the splice loop, one iteration per level of the new node
RECURSIVE Splice(_, _, _, _, _, _)
Splice(h, new_node, update, update_width, i, level) ==
  IF i < level
    THEN LET u  == update[i]
             h1 == [h EXCEPT ![new_node].forward_[i].node = h[u].forward_[i].node]
             h2 == [h1 EXCEPT ![u].forward_[i].node = new_node]
             width_before ==
               (update_width[i - 1] + h2[update[i - 1]].forward_[i - 1].width) % SizeMod
             h3 == IF i > 0
                     THEN LET nw == IF h2[u].forward_[i].width > 0
                                      THEN (h2[u].forward_[i].width + 1 - width_before) % SizeMod
                                      ELSE 0
                              h2a == [h2 EXCEPT ![new_node].forward_[i].width = nw]
                          IN  [h2a EXCEPT ![u].forward_[i].width = width_before]
                     ELSE h2
         IN  Splice(h3, new_node, update, update_width, i + 1, level)
    ELSE h

\* variant: the duplicate test compares with < instead of ==
IsDuplicateLess(h, nxt, key) == nxt # nullptr /\ h[nxt].ptr_ < key

\* "if the node is already in the list": nxt is x->forward_[0].node
IsDuplicate(h, nxt, key) == nxt # nullptr /\ h[nxt].ptr_ = key

insert(h, hd, lvl, wid, kMax, key, streak) ==
  LET d     == InsertFor(h, hd, lvl, key,
                         [i \in 0 .. (kMax - 1) |-> nullptr],
                         [i \in 0 .. (kMax - 1) |-> 0])
      level == RandomLevel(streak, kMax)
      same  == [heap |-> h, level_ |-> lvl, width_ |-> wid]
  IN
  IF level > kMax
    THEN \* update[i] and head_->forward_[i] are written past the end of the arrays
         same @@ [ret |-> nullptr, fault |-> "out_of_bounds"]
    ELSE
      LET update == IF level > lvl THEN RaiseUpdate(d.update, hd, lvl, level) ELSE d.update
          hr     == IF level > lvl THEN RaiseHead(h, hd, lvl, level) ELSE h
          lvl1   == IF level > lvl THEN level ELSE lvl
          nxt    == hr[d.x].forward_[0].node
      IN
      IF IsDuplicate(hr, nxt, key)
        THEN [heap |-> hr, level_ |-> lvl1, width_ |-> wid, ret |-> nxt, fault |-> "none"]
        ELSE LET new_node == CreateNode(hr)
                 hn == [a \in DOMAIN hr \cup {new_node} |->
                          IF a = new_node THEN Skip_Node(key, level) ELSE hr[a]]
             IN  [heap |-> Splice(hn, new_node, update, d.update_width, 0, level),
                  level_ |-> lvl1, width_ |-> (wid + 1) % SizeMod,
                  ret |-> new_node, fault |-> "none"]

\* ----------------------------------------------------------------- remove
RECURSIVE RemoveFor(_, _, _, _, _)
RemoveFor(h, x, i, key, update) ==
  IF i > 0
    THEN LET r == WhileLess(h, x, i, key, 0) IN
         RemoveFor(h, r.x, i - 1, key, [update EXCEPT ![i - 1] = r.x])
    ELSE [x |-> x, update |-> update]

\* variant: a link that passes over the removed node keeps its width
RECURSIVE UnlinkNoDecrement(_, _, _, _, _)
UnlinkNoDecrement(h, x, update, i, lvl) ==
  IF i < lvl
    THEN LET u == update[i] IN
         IF h[u].forward_[i].node # x
           THEN UnlinkNoDecrement(h, x, update, i + 1, lvl)
           ELSE LET xw == h[x].forward_[i].width
                    h1 == [h EXCEPT ![u].forward_[i].node = h[x].forward_[i].node]
                    h2 == [h1 EXCEPT ![x].forward_[i].node = nullptr]
                    h3 == IF xw > 0
                            THEN [h2 EXCEPT ![u].forward_[i].width = (@ + xw - 1) % SizeMod]
                            ELSE [h2 EXCEPT ![u].forward_[i].width = 0]
                IN  UnlinkNoDecrement(h3, x, update, i + 1, lvl)
    ELSE h

\* variant: the loop stops after level 0, so links above it keep targeting
\* the removed node
RECURSIVE UnlinkLevelZeroOnly(_, _, _, _, _)
UnlinkLevelZeroOnly(h, x, update, i, lvl) ==
  IF i < 1
    THEN LET u == update[i] IN
         IF h[u].forward_[i].node # x
           THEN UnlinkLevelZeroOnly([h EXCEPT ![u].forward_[i].width = (@ - 1) % SizeMod],
                                    x, update, i + 1, lvl)
           ELSE LET xw == h[x].forward_[i].width
                    h1 == [h EXCEPT ![u].forward_[i].node = h[x].forward_[i].node]
                    h2 == [h1 EXCEPT ![x].forward_[i].node = nullptr]
                    h3 == IF xw > 0
                            THEN [h2 EXCEPT ![u].forward_[i].width = (@ + xw - 1) % SizeMod]
                            ELSE [h2 EXCEPT ![u].forward_[i].width = 0]
                IN  UnlinkLevelZeroOnly(h3, x, update, i + 1, lvl)
    ELSE h

\* the unlink loop, one iteration per level in use
RECURSIVE Unlink(_, _, _, _, _)
Unlink(h, x, update, i, lvl) ==
  IF i < lvl
    THEN LET u == update[i] IN
         IF h[u].forward_[i].node # x
           THEN Unlink([h EXCEPT ![u].forward_[i].width = (@ - 1) % SizeMod],
                       x, update, i + 1, lvl)
           ELSE LET xw == h[x].forward_[i].width
                    h1 == [h EXCEPT ![u].forward_[i].node = h[x].forward_[i].node]
                    h2 == [h1 EXCEPT ![x].forward_[i].node = nullptr]
                    h3 == IF xw > 0
                            THEN [h2 EXCEPT ![u].forward_[i].width = (@ + xw - 1) % SizeMod]
                            ELSE [h2 EXCEPT ![u].forward_[i].width = 0]
                IN  Unlink(h3, x, update, i + 1, lvl)
    ELSE h

\* "updates the list's max level"
RECURSIVE LowerLevel(_, _, _)
LowerLevel(h, hd, lvl) ==
  IF lvl > 1 /\ h[hd].forward_[lvl - 1].node = nullptr
    THEN LowerLevel(h, hd, lvl - 1)
    ELSE lvl

remove(h, hd, lvl, wid, key, outcome) ==
  LET d    == RemoveFor(h, hd, lvl, key, [i \in 0 .. (lvl - 1) |-> nullptr])
      x    == h[d.x].forward_[0].node
      same == [heap |-> h, level_ |-> lvl, width_ |-> wid]
  IN
  IF x = nullptr
    THEN IF outcome = "segv" THEN same @@ [ret |-> NoElem, fault |-> "null_deref"]
                             ELSE same @@ [ret |-> NoElem, fault |-> "none"]
    ELSE IF h[x].ptr_ # key
           THEN same @@ [ret |-> NoElem, fault |-> "none"]
           ELSE LET hu == Unlink(h, x, d.update, 0, lvl)
                    hf == [a \in DOMAIN hu \ {x} |-> hu[a]]
                IN  [heap |-> hf, level_ |-> LowerLevel(hf, hd, lvl), width_ |-> wid,
                     ret |-> h[x].ptr_, fault |-> "none"]

\* ------------------------------------------------------------ state machine
Call(op, arg, ret) == [op |-> op, arg |-> arg, ret |-> ret]

\* hist keeps the two most recent calls, oldest first
Record(h, c) == IF h = <<>> THEN <<c>> ELSE <<h[Len(h)], c>>

\* Skip_List(max_level, p): an empty list
Init ==
  /\ kMaxLevel_ \in 1 .. MaxLevelCfg
  /\ level_ = 1
  /\ width_ = 0
  /\ head_ = HeadAddr
  /\ heap = [a \in {HeadAddr} |-> Skip_Node(NoElem, kMaxLevel_)]
  /\ fault = "none"
  /\ hist = <<>>
  /\ twin = [heap |-> heap, level_ |-> level_, width_ |-> width_, fault |-> fault]

\* insert while fewer than cap insertions have been counted
InsertUpTo(cap, key, streak) ==
  /\ fault = "none"
  /\ width_ < cap
  /\ LET r == insert(heap, head_, level_, width_, kMaxLevel_, key, streak) IN
     /\ heap' = r.heap
     /\ level_' = r.level_
     /\ width_' = r.width_
     /\ fault' = r.fault
     /\ hist' = Record(hist, Call("insert", key, r.ret))
  /\ UNCHANGED <<kMaxLevel_, head_, twin>>

Insert(key, streak) == InsertUpTo(MaxInserts, key, streak)

InsertWide(key, streak) == InsertUpTo(MaxInsertsWide, key, streak)

Remove(key, outcome) ==
  /\ fault = "none"
  /\ LET r == remove(heap, head_, level_, width_, key, outcome) IN
     /\ heap' = r.heap
     /\ level_' = r.level_
     /\ width_' = r.width_
     /\ fault' = r.fault
     /\ hist' = Record(hist, Call("remove", key, r.ret))
  /\ UNCHANGED <<kMaxLevel_, head_, twin>>

Find(key, outcome) ==
  /\ fault = "none"
  /\ LET r == find(heap, head_, level_, key, outcome) IN
     /\ fault' = r.fault
     /\ hist' = Record(hist, Call("find", key, r.ret))
  /\ UNCHANGED <<kMaxLevel_, level_, width_, head_, heap, twin>>

At(index) ==
  /\ fault = "none"
  /\ hist' = Record(hist, Call("at", index, at(heap, head_, level_, width_, index)))
  /\ UNCHANGED <<kMaxLevel_, level_, width_, head_, heap, fault, twin>>

Next ==
  \/ \E key \in Keys, streak \in Streaks : Insert(key, streak)
  \/ \E key \in Keys, outcome \in NullDerefOutcomes : Remove(key, outcome)
  \/ \E key \in Keys, outcome \in NullDerefOutcomes : Find(key, outcome)
  \/ \E index \in Ranks : At(index)

Spec == Init /\ [][Next]_vars

\* insert and remove only, with room for one more insertion: the histories in
\* which a link that was left short by earlier calls is split by a later insert
NextWide ==
  \/ \E key \in Keys, streak \in Streaks : InsertWide(key, streak)
  \/ \E key \in Keys, outcome \in NullDerefOutcomes : Remove(key, outcome)

SpecWide == Init /\ [][NextWide]_vars

\* two lists constructed with the same arguments and driven by the same calls:
\* the second one, twin, draws its node levels independently of the first
InsertBoth(key, streak, twin_streak) ==
  /\ fault = "none" /\ twin.fault = "none"
  /\ width_ < MaxInsertsPair
  /\ LET r == insert(heap, head_, level_, width_, kMaxLevel_, key, streak)
         t == insert(twin.heap, head_, twin.level_, twin.width_, kMaxLevel_, key, twin_streak)
     IN
     /\ heap' = r.heap
     /\ level_' = r.level_
     /\ width_' = r.width_
     /\ fault' = r.fault
     /\ hist' = Record(hist, Call("insert", key, r.ret))
     /\ twin' = [heap |-> t.heap, level_ |-> t.level_, width_ |-> t.width_, fault |-> t.fault]
  /\ UNCHANGED <<kMaxLevel_, head_>>

RemoveBoth(key, outcome) ==
  /\ fault = "none" /\ twin.fault = "none"
  /\ LET r == remove(heap, head_, level_, width_, key, outcome)
         t == remove(twin.heap, head_, twin.level_, twin.width_, key, outcome)
     IN
     /\ heap' = r.heap
     /\ level_' = r.level_
     /\ width_' = r.width_
     /\ fault' = r.fault
     /\ hist' = Record(hist, Call("remove", key, r.ret))
     /\ twin' = [heap |-> t.heap, level_ |-> t.level_, width_ |-> t.width_, fault |-> t.fault]
  /\ UNCHANGED <<kMaxLevel_, head_>>

NextPair ==
  \/ \E key \in Keys, streak \in Streaks, twin_streak \in Streaks :
       InsertBoth(key, streak, twin_streak)
  \/ \E key \in Keys, outcome \in NullDerefOutcomes : RemoveBoth(key, outcome)

SpecPair == Init /\ [][NextPair]_vars

\* calls of the static MaxLevel, which touches no list
MaxLevelCall(N, p, cast) ==
  /\ hist' = Record(hist, Call("MaxLevel", <<N, p>>, MaxLevel(N, p, cast)))
  /\ UNCHANGED <<kMaxLevel_, level_, width_, head_, heap, fault, twin>>

NextMaxLevel ==
  \E N \in 0 .. MaxN, p \in Floats, cast \in UndefinedCastOutcomes : MaxLevelCall(N, p, cast)

SpecMaxLevel == Init /\ [][NextMaxLevel]_vars

\* ------------------------------------------------------------ observations
\* the nodes reached from address a by following level-l links
RECURSIVE Lane(_, _, _)
Lane(h, a, l) ==
  IF a = nullptr THEN <<>> ELSE <<a>> \o Lane(h, h[a].forward_[l].node, l)

\* the level-0 chain behind the head sentinel, and the elements on it
Chain0 == Lane(heap, heap[head_].forward_[0].node, 0)
Elems == [i \in 1 .. Len(Chain0) |-> heap[Chain0[i]].ptr_]
Stored == {Elems[i] : i \in 1 .. Len(Elems)}

\* the element at index r of the sorted elements of S
NthSmallest(S, r) == CHOOSE e \in S : Cardinality({d \in S : d < e}) = r

Last == hist[Len(hist)]
Prev == hist[1]
Called(op) == hist # <<>> /\ Last.op = op
CalledAfter(op1, op2) == Len(hist) = 2 /\ Prev.op = op1 /\ Last.op = op2

\* the call a step makes: every action records its call as the last of hist
Calling(op, arg) == hist'[Len(hist')].op = op /\ hist'[Len(hist')].arg = arg
Returned == hist'[Len(hist')].ret

\* ------------------------------------------------------------------ claims

\* C1: rank correctness. After any sequence of insert and remove calls, at(r)
\* with 0 <= r < n (n the number of stored elements) returns the node holding
\* the r-th smallest stored element.
C1_RankCorrect ==
  (Called("at") /\ Last.arg < Len(Chain0))
    => (Last.ret # nullptr /\ heap[Last.ret].ptr_ = NthSmallest(Stored, Last.arg))

\* C2: size invariant. length() equals the number of non-sentinel nodes on the
\* level-0 chain in every reachable state.
C2_SizeInvariant == length(width_) = Len(Chain0)

\* C3: ordering. The elements reached by following level-0 links from the head
\* are strictly ascending, with no duplicates.
C3_Ordering == \A i \in 1 .. (Len(Elems) - 1) : Elems[i] < Elems[i + 1]

\* C3 witness: an insert in front of a stored element, right after a
\* successful remove, on a list that then holds at least two elements
C3_Witness ==
  /\ CalledAfter("remove", "insert")
  /\ Prev.ret # NoElem
  /\ Len(Chain0) >= 2
  /\ Last.arg < Elems[Len(Elems)]
  /\ heap[Last.ret].level_ >= 2

\* C4: find(key) on a key that is not stored returns nullptr as a normal
\* result and never reaches an error state.
C4_FindAbsent ==
  (Called("find") /\ Last.arg \notin Stored) => (Last.ret = nullptr /\ fault = "none")

\* C5: remove(key) on a key that is not stored returns absent, leaves links,
\* widths, level_ and width_ unchanged and never reaches an error state.
C5_RemoveAbsent ==
  [][\A key \in Keys :
       (key \notin Stored /\ Calling("remove", key))
         => /\ Returned = NoElem
            /\ fault' = "none"
            /\ UNCHANGED <<heap, level_, width_>>]_vars

\* C6: round trip insert/remove. insert(x) followed by remove(x) returns a
\* value equal to x, and a find(x) performed afterwards returns absent.
C6_InsertRemoveFind ==
  [][\A key \in Keys :
       (/\ CalledAfter("insert", "remove")
        /\ Prev.arg = key /\ Last.arg = key
        /\ Calling("find", key))
         => /\ Last.ret = key
            /\ Returned = nullptr
            /\ fault' = "none"]_vars

\* C7: round trip insert/find. insert(x) followed by find(x) returns the node
\* insert returned, and that node holds a value equal to x.
C7_InsertFind ==
  (CalledAfter("insert", "find") /\ Last.arg = Prev.arg)
    => /\ fault = "none"
       /\ Last.ret # nullptr
       /\ Last.ret = Prev.ret
       /\ Last.ret \in DOMAIN heap
       /\ heap[Last.ret].ptr_ = Last.arg

\* C7 witness: the round trip on a list of at least two elements, for a node
\* drawn with more than one level
C7_Witness ==
  /\ CalledAfter("insert", "find") /\ Last.arg = Prev.arg
  /\ Len(Chain0) >= 2
  /\ Last.ret \in DOMAIN heap
  /\ heap[Last.ret].level_ >= 2

\* C8: idempotence. insert of a key that is already stored does not increase
\* the size and returns the existing node holding that key; no second node
\* with that key is created.
C8_InsertIdempotent ==
  [][\A key \in Keys :
       (key \in Stored /\ Calling("insert", key))
         => /\ width_' = width_
            /\ DOMAIN heap' = DOMAIN heap
            /\ Chain0' = Chain0
            /\ Elems' = Elems
            /\ Returned \in {Chain0[i] : i \in 1 .. Len(Chain0)}
            /\ heap[Returned].ptr_ = key]_vars

\* C8 witness: the same key inserted twice in a row, both calls answering with
\* the same node, on a list of two or more elements whose level_ is above
\* that node's level
C8_Witness ==
  /\ CalledAfter("insert", "insert") /\ Last.arg = Prev.arg
  /\ Last.ret = Prev.ret
  /\ Len(Chain0) >= 2
  /\ level_ > heap[Last.ret].level_

\* C9: at(rank) returns nullptr, without error, whenever rank >= size (the
\* size length() reports, or the number of elements on the level-0 chain).
C9_AtOutOfRange ==
  (Called("at") /\ (Last.arg >= length(width_) \/ Last.arg >= Len(Chain0)))
    => (Last.ret = nullptr /\ fault = "none")

\* C9 witness: at called with rank = length() on a list of two elements or more
C9_Witness ==
  /\ Called("at")
  /\ Last.arg >= length(width_)
  /\ Len(Chain0) >= 2

\* C10: level bound. No node's level exceeds kMaxLevel_, level_ stays within
\* 1..kMaxLevel_, and no access to the head's links or the update trail is
\* out of bounds.
C10_LevelBound ==
  kMaxLevel_ >= 1
    => /\ \A a \in DOMAIN heap : heap[a].level_ >= 1 /\ heap[a].level_ <= kMaxLevel_
       /\ level_ >= 1 /\ level_ <= kMaxLevel_
       /\ fault # "out_of_bounds"

\* C10 witness: insert has just created a node with the highest level
\* RandomLevel can draw, and level_ was raised to it
C10_Witness ==
  /\ Called("insert")
  /\ heap[Last.ret].level_ = level_
  /\ level_ >= 2
  /\ level_ = kMaxLevel_ - 1

\* ------------------------------------------------- observations on widths
\* the number of level-0 steps from the head to address a (0 for the head)
Pos(a) == IF a = head_ THEN 0 ELSE CHOOSE i \in 1 .. Len(Chain0) : Chain0[i] = a

\* the link of node a at level index l
LinkOf(h, a, l) == h[a].forward_[l]

\* every link with a target carries the number of level-0 steps it spans
WidthsExact ==
  \A a \in DOMAIN heap : \A l \in DOMAIN heap[a].forward_ :
    LinkOf(heap, a, l).node # nullptr
      => LinkOf(heap, a, l).width = Pos(LinkOf(heap, a, l).node) - Pos(a)

\* the update trail insert and remove compute for key in the current state
Trail(key) ==
  InsertFor(heap, head_, level_, key,
            [i \in 0 .. (kMaxLevel_ - 1) |-> nullptr],
            [i \in 0 .. (kMaxLevel_ - 1) |-> 0]).update

\* C11: rank (width) invariant. For every node N and every level l it is on,
\* the width of the link that points into N from its level-l predecessor is
\* the number of level-0 steps from that predecessor to N.
C11_WidthInvariant == WidthsExact

\* C12: when insert adds a node of drawn level L below level_, every link at a
\* level index l with L <= l < level_ that has a target (it passes over the
\* new node) has its width increased by exactly one.
C12_PassOverIncrement ==
  [][\A key \in Keys :
       (/\ key \notin Stored
        /\ Calling("insert", key)
        /\ heap'[Returned].level_ < level_)
         => \A l \in heap'[Returned].level_ .. (level_ - 1) :
              LinkOf(heap, Trail(key)[l], l).node # nullptr
                => LinkOf(heap', Trail(key)[l], l).width
                     = (LinkOf(heap, Trail(key)[l], l).width + 1) % SizeMod]_vars

\* the number of level-0 steps from node a to node b in heap h
RECURSIVE StepsTo(_, _, _)
StepsTo(h, a, b) == IF a = b THEN 0 ELSE 1 + StepsTo(h, LinkOf(h, a, 0).node, b)

\* C13: insert width split. When insert splices a new node in at a level index
\* l > 0 where the predecessor's link had a target, the predecessor's new
\* width plus the new node's outgoing width is the predecessor's old width
\* plus one, and the predecessor's new width is the number of level-0 steps
\* from the predecessor to the new node.
C13_InsertWidthSplit ==
  [][\A key \in Keys :
       (key \notin Stored /\ Calling("insert", key) /\ fault' = "none")
         => \A l \in 1 .. (level_ - 1) :
              (/\ l < heap'[Returned].level_
               /\ LinkOf(heap, Trail(key)[l], l).node # nullptr)
                => /\ LinkOf(heap', Trail(key)[l], l).width
                        + LinkOf(heap', Returned, l).width
                        = LinkOf(heap, Trail(key)[l], l).width + 1
                   /\ LinkOf(heap', Trail(key)[l], l).width
                        = StepsTo(heap', Trail(key)[l], Returned)]_vars

\* the update trail remove computes for key in the current state
RemoveTrail(key) ==
  RemoveFor(heap, head_, level_, key, [i \in 0 .. (level_ - 1) |-> nullptr]).update

\* the node remove inspects: the one after the level-0 predecessor
RemoveTarget(key) == LinkOf(heap, RemoveTrail(key)[0], 0).node

\* C14: remove preserves the rank invariant. If every link with a target
\* carries the number of level-0 steps it spans before a successful
\* remove(key), the same holds after it, and every link with a target that
\* passed over the removed node has its width decremented by one.
C14_RemoveKeepsWidths ==
  [][\A key \in Keys :
       (WidthsExact /\ Calling("remove", key) /\ Returned # NoElem)
         => /\ WidthsExact'
            /\ \A l \in 0 .. (level_ - 1) :
                 (/\ LinkOf(heap, RemoveTrail(key)[l], l).node # RemoveTarget(key)
                  /\ LinkOf(heap, RemoveTrail(key)[l], l).node # nullptr)
                   => LinkOf(heap', RemoveTrail(key)[l], l).width
                        = LinkOf(heap, RemoveTrail(key)[l], l).width - 1
            /\ \A l \in 0 .. (level_ - 1) :
                 (/\ LinkOf(heap, RemoveTrail(key)[l], l).node = RemoveTarget(key)
                  /\ LinkOf(heap, RemoveTarget(key), l).node # nullptr)
                   => LinkOf(heap', RemoveTrail(key)[l], l).width
                        = LinkOf(heap, RemoveTrail(key)[l], l).width
                            + LinkOf(heap, RemoveTarget(key), l).width - 1]_vars

\* C14 witness: a successful remove of an element in front of the first
\* level-1 node, whose link from the head passed over the removed node, with
\* all widths exact afterwards
C14_Witness ==
  /\ Called("remove") /\ Last.ret # NoElem
  /\ level_ >= 2
  /\ LinkOf(heap, head_, 1).node # nullptr
  /\ Last.arg < heap[LinkOf(heap, head_, 1).node].ptr_
  /\ Len(Chain0) >= 2
  /\ WidthsExact

\* C15: every link whose target is absent, at every level index below level_
\* of the head and of every node, carries width 0.
C15_NullLinkWidthZero ==
  \A a \in DOMAIN heap : \A l \in DOMAIN heap[a].forward_ :
    (l < level_ /\ LinkOf(heap, a, l).node = nullptr) => LinkOf(heap, a, l).width = 0

\* C16: remove never decrements a link width that is 0: every link of the
\* update trail that does not target the removed node has width >= 1 when
\* remove decrements it.
C16_NoDecrementOfZero ==
  [][\A key \in Keys :
       (Calling("remove", key) /\ Returned # NoElem)
         => \A l \in 0 .. (level_ - 1) :
              LinkOf(heap, RemoveTrail(key)[l], l).node # RemoveTarget(key)
                => LinkOf(heap, RemoveTrail(key)[l], l).width >= 1]_vars

\* C17: insert of a key that is already stored is a no-op on the whole
\* structure: level_, every link target, every link width and width_ are
\* unchanged, for any drawn level.
C17_DuplicateInsertNoop ==
  [][\A key \in Keys :
       (key \in Stored /\ Calling("insert", key))
         => UNCHANGED <<level_, heap, width_>>]_vars

\* C18: express lanes. For every level index l below level_, the nodes reached
\* by level-l links from the head are, in the same order, the nodes of the
\* level-0 chain whose own level is greater than l.
C18_ExpressLanes ==
  \A l \in 0 .. (level_ - 1) :
    Lane(heap, LinkOf(heap, head_, l).node, l)
      = SelectSeq(Chain0, LAMBDA a : heap[a].level_ > l)

\* C18 witness: after a successful remove and an insert, two elements or more
\* are stored and exactly one of them is on the level-1 lane
C18_Witness ==
  /\ CalledAfter("remove", "insert") /\ Prev.ret # NoElem
  /\ level_ = 2
  /\ Len(Chain0) >= 2
  /\ Len(Lane(heap, LinkOf(heap, head_, 1).node, 1)) = 1

ElemOf(h, a) == IF a = nullptr THEN NoElem ELSE h[a].ptr_

\* C20: observable results do not depend on the level draws. Two lists driven
\* by the same insert and remove calls, with independently drawn node levels,
\* give the same length(), the same element (or absent) for every at(rank) and
\* the same found or absent answer for every find(key).
C20_DrawsUnobservable ==
  /\ length(width_) = length(twin.width_)
  /\ \A index \in Ranks :
       ElemOf(heap, at(heap, head_, level_, width_, index))
         = ElemOf(twin.heap, at(twin.heap, head_, twin.level_, twin.width_, index))
  /\ \A key \in Keys, outcome \in NullDerefOutcomes :
       LET r == find(heap, head_, level_, key, outcome)
           t == find(twin.heap, head_, twin.level_, key, outcome)
       IN  (r.ret = nullptr) = (t.ret = nullptr) /\ r.fault = t.fault

\* C21: no dangling links. Every node's level is at most level_, and no link
\* of the head or of any node, at any level, targets a node that has been
\* destroyed: every target is nullptr or a live node.
C21_NoDanglingLinks ==
  /\ \A a \in DOMAIN heap \ {head_} : heap[a].level_ <= level_
  /\ \A a \in DOMAIN heap : \A l \in DOMAIN heap[a].forward_ :
       LinkOf(heap, a, l).node \in DOMAIN heap \cup {nullptr}

\* C21 witness: a node was inserted and then removed and destroyed, while the
\* list keeps two elements or more and a lane above level 0
C21_Witness ==
  /\ CalledAfter("insert", "remove")
  /\ Prev.arg = Last.arg /\ Last.ret = Last.arg
  /\ Prev.ret \notin DOMAIN heap
  /\ Len(Chain0) >= 2
  /\ level_ >= 2

OutOfRange(p) == (p.sign = 1 /\ p.exp > 0) \/ p.sign < 0

\* C23: MaxLevel(N, p) returns the invalid marker 0 whenever p is out of range
\* (p > 1 or p < 0), for every N.
C23_MaxLevelInvalidP ==
  (Called("MaxLevel") /\ OutOfRange(Last.arg[2])) => Last.ret = 0

====
